---- MODULE Spec2Model ----
(***************************************************************************)
(* Bidirectional product reconciliation of the shopify-app repository:     *)
(* the sync action of app/routes/admin.products.jsx over the single-table  *)
(* store module (src/unnamed/part_000, lines 1046-1625) and the            *)
(* app-uninstalled webhook (src/unnamed/part_000, lines 1648-1670).        *)
(*                                                                         *)
(* Abstractions: a product carries only id, title and variant quantities   *)
(* (description, brand, size, price and image are copied through by the    *)
(* code and take no part in detection); a string that may hold '/' is the  *)
(* sequence of its segments; a remote write either is applied and reports  *)
(* success, or is not applied and reports failure; the remote system       *)
(* resolves gid://shopify/Product/<n> to its first product whose           *)
(* identifier ends in <n>.                                                 *)
(***************************************************************************)
EXTENDS Integers, Sequences, FiniteSets, TLC

(***************************************************************************)
(* Bounds of the model.                                                    *)
(***************************************************************************)
MaxRuns == 2       \* sync requests served in one behaviour
MaxOps == 1        \* store operations issued outside a run
MaxFaults == 2     \* calls the environment lets fail in one behaviour
MaxRemote == 2     \* products in a merchant's remote catalog
MaxQuantity == 1   \* largest quantity a store operation writes

Runs == 1..MaxRuns

ShopA == "a.myshopify.com"
ShopB == "b.myshopify.com"
Merchants == {ShopA, ShopB}

NullId == "<null>"     \* JS null / SQL NULL of a string
NoInventory == -1      \* JS null / undefined, SQL NULL of a number
NoShop == "<none>"

\* "gid://shopify/Product/<n>" as the segments between its '/' characters
Gid(n) == <<"gid:", "", "shopify", "Product", n>>
\* the JS null id is the empty sequence; a string without '/' has one segment
NullRaw == <<>>

(***************************************************************************)
(* Pure helpers of the route and of the store module.                      *)
(***************************************************************************)
RECURSIVE SumSeq(_)
SumSeq(s) == IF s = <<>> THEN 0 ELSE Head(s) + SumSeq(Tail(s))

Min(S) == CHOOSE x \in S : \A y \in S : x <= y

\* JS: v || 0
OrZero(v) == IF v = NoInventory \/ v = 0 THEN 0 ELSE v

\* JS: !shopifyId
Falsy(id) == id = NullId \/ id = ""

\* let shopifyId = product.id;
\* if (shopifyId && shopifyId.includes('/')) shopifyId = shopifyId.split('/').pop();
ExtractShopifyId(raw) ==
  IF raw = NullRaw THEN NullId
  ELSE IF Len(raw) > 1 THEN raw[Len(raw)]
  ELSE raw[1]

\* totalInventory when present, else the sum of the variants'
\* inventoryQuantity || 0, else 0
extractInventoryFromPreloved(product) ==
  IF product.totalInventory # NoInventory THEN product.totalInventory
  ELSE IF Len(product.variants) > 0
       THEN SumSeq([k \in 1..Len(product.variants) |-> OrZero(product.variants[k])])
       ELSE 0

\* the products(first: 50) response of the remote system for one catalog
ProductsResponse(catalog) ==
  [k \in 1..Len(catalog) |->
     [id |-> catalog[k].id, title |-> catalog[k].title,
      totalInventory |-> SumSeq(catalog[k].variants),
      variants |-> catalog[k].variants]]

\* processedShopifyProducts: each node with its derived inventory
ProcessShopifyProducts(edges) ==
  [k \in 1..Len(edges) |->
     [id |-> edges[k].id, title |-> edges[k].title,
      inventory |-> extractInventoryFromPreloved(edges[k])]]

(***************************************************************************)
(* The products table.                                                     *)
(***************************************************************************)
RowsOf(d, storeDomain) == {row \in d : row.store_domain = storeDomain}

RECURSIVE OrderByIdDesc(_)
OrderByIdDesc(S) ==
  IF S = {} THEN <<>>
  ELSE LET top == CHOOSE x \in S : \A y \in S : y.id <= x.id
       IN <<top>> \o OrderByIdDesc(S \ {top})

\* SELECT * FROM products WHERE store_domain = ? ORDER BY id DESC;
\* a storage error is caught and an empty list returned
getProductsFromDB(d, storeDomain, ok) ==
  IF ok THEN OrderByIdDesc(RowsOf(d, storeDomain)) ELSE <<>>

RECURSIVE SumInventory(_)
SumInventory(S) ==
  IF S = {} THEN 0
  ELSE LET x == CHOOSE y \in S : TRUE
       IN OrZero(x.inventory_quantity) + SumInventory(S \ {x})

\* SELECT store_domain, COUNT(*), SUM(inventory_quantity) FROM products
\* GROUP BY store_domain; a storage error is caught and an empty list returned
getAllStoresWithStats(d, ok) ==
  IF ok
  THEN {[domain |-> m, productCount |-> Cardinality(RowsOf(d, m)),
         totalInventory |-> SumInventory(RowsOf(d, m))] :
          m \in {row.store_domain : row \in d}}
  ELSE {}

\* variant: the WHERE clause of the scoped DELETE is lost
resetDatabase_Unscoped(d, storeDomain) == {}

\* DELETE FROM products WHERE store_domain = ?   (storeDomain given)
\* DELETE FROM products                          (storeDomain null)
resetDatabase(d, storeDomain) ==
  IF storeDomain # NoShop THEN d \ RowsOf(d, storeDomain) ELSE {}

\* UPDATE products SET inventory_quantity = ? WHERE id = ? AND store_domain = ?
updateProductInventory(d, productId, newInventory, storeDomain) ==
  {IF row.id = productId /\ row.store_domain = storeDomain
     THEN [row EXCEPT !.inventory_quantity = newInventory] ELSE row : row \in d}

\* SELECT ... FROM products WHERE id = ? AND store_domain = ? LIMIT 1
SelectById(d, productId, storeDomain) ==
  {row \in d : row.id = productId /\ row.store_domain = storeDomain}

\* SELECT id ... FROM products WHERE shopify_id = ? AND store_domain = ?
SelectByShopifyId(d, shopifyId, storeDomain) ==
  {row \in d : row.shopify_id = shopifyId /\ row.store_domain = storeDomain}

\* variant: every record is INSERTed, the existence check is lost
UpsertProduct_AlwaysInserts(d, newId, shopifyId, product, storeDomain) ==
  d \cup {[id |-> newId, shopify_id |-> shopifyId, title |-> product.title,
           inventory_quantity |-> OrZero(product.inventory),
           store_domain |-> storeDomain]}

\* variant: the UPDATE leaves the title column out
UpsertProduct_KeepsTitle(d, newId, shopifyId, product, storeDomain) ==
  IF SelectByShopifyId(d, shopifyId, storeDomain) # {}
  THEN {IF row.shopify_id = shopifyId /\ row.store_domain = storeDomain
          THEN [row EXCEPT !.inventory_quantity = OrZero(product.inventory)]
          ELSE row : row \in d}
  ELSE d \cup {[id |-> newId, shopify_id |-> shopifyId, title |-> product.title,
                inventory_quantity |-> OrZero(product.inventory),
                store_domain |-> storeDomain]}

\* variant: the merchant's rows are replaced by the record being saved
UpsertProduct_ReplacesStore(d, newId, shopifyId, product, storeDomain) ==
  {row \in d : row.store_domain # storeDomain}
    \cup {[id |-> newId, shopify_id |-> shopifyId, title |-> product.title,
           inventory_quantity |-> OrZero(product.inventory),
           store_domain |-> storeDomain]}

\* variant: the INSERT leaves inventory_quantity to the column default
UpsertProduct_InsertsDefault(d, newId, shopifyId, product, storeDomain) ==
  IF SelectByShopifyId(d, shopifyId, storeDomain) # {}
  THEN {IF row.shopify_id = shopifyId /\ row.store_domain = storeDomain
          THEN [row EXCEPT !.title = product.title,
                           !.inventory_quantity = OrZero(product.inventory)]
          ELSE row : row \in d}
  ELSE d \cup {[id |-> newId, shopify_id |-> shopifyId, title |-> product.title,
                inventory_quantity |-> 0, store_domain |-> storeDomain]}

\* the UPDATE / INSERT of saveProductsToDB for one product
UpsertProduct(d, newId, shopifyId, product, storeDomain) ==
  IF SelectByShopifyId(d, shopifyId, storeDomain) # {}
  THEN {IF row.shopify_id = shopifyId /\ row.store_domain = storeDomain
          THEN [row EXCEPT !.title = product.title,
                           !.inventory_quantity = OrZero(product.inventory)]
          ELSE row : row \in d}
  ELSE d \cup {[id |-> newId, shopify_id |-> shopifyId, title |-> product.title,
                inventory_quantity |-> OrZero(product.inventory),
                store_domain |-> storeDomain]}

(***************************************************************************)
(* detectChanges                                                           *)
(***************************************************************************)
\* variant: the last match instead of the first
FindShopifyProduct_Last(shopifyProducts, shopifyId) ==
  LET hits == {k \in 1..Len(shopifyProducts) :
                 ExtractShopifyId(shopifyProducts[k].id) = shopifyId}
  IN IF hits = {} THEN 0 ELSE CHOOSE k \in hits : \A j \in hits : j <= k

\* shopifyProducts.find(sp => normalised id === dbProduct.shopify_id):
\* the index of the first match, 0 when there is none
FindShopifyProduct(shopifyProducts, shopifyId) ==
  LET hits == {k \in 1..Len(shopifyProducts) :
                 ExtractShopifyId(shopifyProducts[k].id) = shopifyId}
  IN IF hits = {} THEN 0 ELSE Min(hits)

\* variant: records without shopify_id are not skipped
MatchOf_NoSkip(dbProduct, shopifyProducts) ==
  FindShopifyProduct(shopifyProducts, dbProduct.shopify_id)

MatchOf(dbProduct, shopifyProducts) ==
  IF Falsy(dbProduct.shopify_id) THEN 0
  ELSE FindShopifyProduct(shopifyProducts, dbProduct.shopify_id)

\* variant: a title delta for every matched record, equal titles included
RECURSIVE TitleChangesFrom_ReportsAll(_, _, _)
TitleChangesFrom_ReportsAll(dbProducts, shopifyProducts, k) ==
  IF k > Len(dbProducts) THEN <<>>
  ELSE LET dbProduct == dbProducts[k]
           j == MatchOf(dbProduct, shopifyProducts)
           rest == TitleChangesFrom_ReportsAll(dbProducts, shopifyProducts, k + 1)
       IN IF j # 0
          THEN <<[dbProductId |-> dbProduct.id, shopifyId |-> dbProduct.shopify_id,
                  dbTitle |-> dbProduct.title,
                  shopifyTitle |-> shopifyProducts[j].title]>> \o rest
          ELSE rest

RECURSIVE TitleChangesFrom(_, _, _)
TitleChangesFrom(dbProducts, shopifyProducts, k) ==
  IF k > Len(dbProducts) THEN <<>>
  ELSE LET dbProduct == dbProducts[k]
           j == MatchOf(dbProduct, shopifyProducts)
           rest == TitleChangesFrom(dbProducts, shopifyProducts, k + 1)
       IN IF j # 0 /\ dbProduct.title # shopifyProducts[j].title
          THEN <<[dbProductId |-> dbProduct.id, shopifyId |-> dbProduct.shopify_id,
                  dbTitle |-> dbProduct.title,
                  shopifyTitle |-> shopifyProducts[j].title]>> \o rest
          ELSE rest

\* variant: an inventory delta only when the local quantity is the larger one
RECURSIVE InventoryChangesFrom_OnlySurplus(_, _, _)
InventoryChangesFrom_OnlySurplus(dbProducts, shopifyProducts, k) ==
  IF k > Len(dbProducts) THEN <<>>
  ELSE LET dbProduct == dbProducts[k]
           j == MatchOf(dbProduct, shopifyProducts)
           rest == InventoryChangesFrom_OnlySurplus(dbProducts, shopifyProducts, k + 1)
       IN IF j # 0 /\ OrZero(dbProduct.inventory_quantity)
                        > OrZero(shopifyProducts[j].inventory)
          THEN <<[dbProductId |-> dbProduct.id, shopifyId |-> dbProduct.shopify_id,
                  dbInventory |-> OrZero(dbProduct.inventory_quantity),
                  shopifyInventory |-> OrZero(shopifyProducts[j].inventory)]>> \o rest
          ELSE rest

RECURSIVE InventoryChangesFrom(_, _, _)
InventoryChangesFrom(dbProducts, shopifyProducts, k) ==
  IF k > Len(dbProducts) THEN <<>>
  ELSE LET dbProduct == dbProducts[k]
           j == MatchOf(dbProduct, shopifyProducts)
           rest == InventoryChangesFrom(dbProducts, shopifyProducts, k + 1)
       IN IF j # 0 /\ OrZero(dbProduct.inventory_quantity)
                        # OrZero(shopifyProducts[j].inventory)
          THEN <<[dbProductId |-> dbProduct.id, shopifyId |-> dbProduct.shopify_id,
                  dbInventory |-> OrZero(dbProduct.inventory_quantity),
                  shopifyInventory |-> OrZero(shopifyProducts[j].inventory)]>> \o rest
          ELSE rest

\* variant: detectChanges reverses the array it went through, in place
DetectLeaves_Reversed(products) ==
  [k \in 1..Len(products) |-> products[Len(products) + 1 - k]]

\* what detectChanges leaves of an array it was given: it reads its arguments
\* with for...of and find() and assigns to none of their elements
DetectLeaves(products) == products

detectChanges(dbProducts, shopifyProducts) ==
  [titleChanges |-> TitleChangesFrom(dbProducts, shopifyProducts, 1),
   inventoryChanges |-> InventoryChangesFrom(dbProducts, shopifyProducts, 1)]


(***************************************************************************)
(* The remote system, as the calls of the push functions see it.           *)
(***************************************************************************)
\* product(id: "gid://shopify/Product/<shopifyId>"): index of the product, 0 if none
RemoteFind(catalog, shopifyId) ==
  LET hits == {k \in 1..Len(catalog) : ExtractShopifyId(catalog[k].id) = shopifyId}
  IN IF hits = {} THEN 0 ELSE Min(hits)

\* productUpdate(input: {id, title})
RemoteUpdateTitle(catalog, j, productTitle) ==
  [catalog EXCEPT ![j].title = productTitle]

\* quantities = variants.map(variant => ({inventoryItemId, locationId, quantity}))
\* variant: only the first variant is given the quantity
Quantities_FirstOnly(variants, inventoryQuantity) ==
  [k \in 1..Len(variants) |-> IF k = 1 THEN inventoryQuantity ELSE variants[k]]

Quantities(variants, inventoryQuantity) ==
  [k \in 1..Len(variants) |-> inventoryQuantity]

\* inventorySetQuantities(input: {quantities}): every listed item gets its quantity
RemoteSetQuantities(catalog, j, quantities) ==
  [catalog EXCEPT ![j].variants = quantities]

(***************************************************************************)
(* State.                                                                  *)
(***************************************************************************)
VARIABLES
  db,       \* the rows of the products table
  nextId,   \* AUTO_INCREMENT of products.id
  remote,   \* the remote catalog of each merchant
  run,      \* the sync requests: locals of action(), and what each has done
  opsDone,  \* store operations issued so far (outside a run), per merchant
  faults,   \* failures the environment may still inject
  pool      \* the connection pool: connections checked out, and where the
            \* units of work that use it stand

vars == <<db, nextId, remote, run, opsDone, faults, pool>>

\* connectionLimit of createPool
connectionLimit == 20

\* the units of work that take a connection: the store functions with one
\* statement block ("read"), saveProductsToDB ("save"), the two push
\* functions ("push") and the app/uninstalled webhook ("uninstall")
Kinds == {"read", "save", "push", "uninstall"}

\* the awaits of a unit of work
Steps ==
  {"read.getDB", "read.execute",
   "save.getDB", "save.schema.getDB", "save.schema.execute", "save.execute",
   "push.getDB", "push.select", "push.graphql",
   "uninstall.getDB", "uninstall.execute",
   "returned"}

EntryOf(kind) ==
  CASE kind = "read" -> "read.getDB"
    [] kind = "save" -> "save.getDB"
    [] kind = "push" -> "push.getDB"
    [] kind = "uninstall" -> "uninstall.getDB"

\* the awaits of pool.getConnection()
GetDBSteps == {"read.getDB", "save.getDB", "save.schema.getDB", "push.getDB", "uninstall.getDB"}

\* the awaits of a call of the remote system
RemoteSteps == {"push.graphql"}

\* the connections a unit of work has taken and not released when it stands
\* at a step
Holds(step) ==
  CASE step \in {"read.getDB", "save.getDB", "push.getDB", "uninstall.getDB", "returned"} -> 0
    [] step \in {"read.execute", "save.schema.getDB", "save.execute",
                 "push.select", "push.graphql", "uninstall.execute"} -> 1
    [] step = "save.schema.execute" -> 2

EmptyPool == [held |-> 0, started |-> 0, at |-> [step \in Steps |-> 0]]

NoResult ==
  [success |-> FALSE, message |-> "none", titleSynced |-> 0, inventorySynced |-> 0,
   pushErrors |-> 0, saved |-> 0, updated |-> 0, errors |-> 0,
   products |-> <<>>, allStores |-> {}]

IdleRun ==
  [pc |-> "idle", shop |-> NoShop, dbProducts |-> <<>>, shopifyProducts |-> <<>>,
   titleChanges |-> <<>>, inventoryChanges |-> <<>>, i |-> 1,
   titleSyncSuccess |-> 0, titleSyncErrors |-> 0,
   inventorySyncSuccess |-> 0, inventorySyncErrors |-> 0,
   updatedCount |-> 0, errorCount |-> 0, result |-> NoResult,
   \* history of the request, read by the properties only
   events |-> <<>>, pre |-> {}, post |-> {}, preRemote |-> <<>>, postRemote |-> <<>>,
   fetched |-> FALSE, storeDown |-> FALSE, prior |-> {},
   failed |-> {}, written |-> {}, snapshotIds |-> <<>>,
   \* answer of the SELECT of saveProductsToDB for the record being saved,
   \* "?" while that SELECT has not been issued
   found |-> "?"]

Active(r) == run[r].pc \notin {"idle", "done", "archived"}

\* one request at a time (spec section 5: single logical run)
NoActiveRun == \A r \in Runs : ~Active(r)

\* what is kept of a finished request once the next one starts
Archived(q) ==
  [IdleRun EXCEPT !.pc = "archived", !.shop = run[q].shop,
     !.fetched = run[q].fetched,
     !.failed = {[op |-> e.op, ext |-> e.ext, title |-> e.title, qty |-> e.qty] :
                   e \in {x \in {run[q].events[k] : k \in 1..Len(run[q].events)} :
                            x.op # "upsert" /\ ~x.ok}},
     !.written = {e.ext : e \in {x \in {run[q].events[k] : k \in 1..Len(run[q].events)} :
                                    x.op = "upsert" /\ x.ok}},
     !.snapshotIds = [k \in 1..Len(run[q].shopifyProducts) |->
                        ExtractShopifyId(run[q].shopifyProducts[k].id)]]

(***************************************************************************)
(* Initial states: what the store and the remote catalogs may hold.        *)
(***************************************************************************)
Product(id, title, variants) == [id |-> id, title |-> title, variants |-> variants]

Row(id, shopifyId, title, inventory, storeDomain) ==
  [id |-> id, shopify_id |-> shopifyId, title |-> title,
   inventory_quantity |-> inventory, store_domain |-> storeDomain]

ProductsA ==
  { Product(Gid("1"), "New", <<1>>),
    Product(<<"1">>, "Old", <<1, 1>>),
    Product(Gid("2"), "New", <<>>),
    Product(NullRaw, "New", <<0>>) }

CatalogsA == UNION {[1..n -> ProductsA] : n \in 0..MaxRemote}

CatalogB == <<Product(Gid("1"), "New", <<1>>)>>

StoresA ==
  { r1 \cup r2 \cup r3 :
      r1 \in { {}, {Row(1, "1", "Old", 1, ShopA)},
               {Row(1, "1", "New", NoInventory, ShopA)} },
      r2 \in { {}, {Row(2, "2", "Old", 1, ShopA)} },
      r3 \in { {}, {Row(3, NullId, "Old", 0, ShopA)} } }

StoresB == { {Row(4, "1", "Old", 1, ShopB)} }

FirstFreeId == 5

Init ==
  /\ db \in {sa \cup sb : sa \in StoresA, sb \in StoresB}
  /\ nextId = FirstFreeId
  /\ remote \in {[m \in Merchants |-> IF m = ShopA THEN c ELSE CatalogB] : c \in CatalogsA}
  /\ run = [r \in Runs |-> IdleRun]
  /\ opsDone = [m \in Merchants |-> 0]
  /\ faults = MaxFaults
  /\ pool = EmptyPool


(***************************************************************************)
(* The push functions and the upsert, as functions of what they read.      *)
(* `out` is what the environment does to the call: "ok", "db" (no          *)
(* connection / storage error), "api", "query", "set" (that remote call    *)
(* throws, times out or answers with errors), "exec" (a statement fails).  *)
(***************************************************************************)
PushResult(success, catalog, calls, ext, title, qty) ==
  [success |-> success, catalog |-> catalog, calls |-> calls,
   ext |-> ext, title |-> title, qty |-> qty]

\* variant: the mutation is sent even when the SELECT found no row
syncTitleToShopify_CallsWithoutRow(d, catalog, productId, storeDomain, out) ==
  LET products == IF out = "db" THEN {} ELSE SelectById(d, productId, storeDomain)
  IN IF products = {}
     THEN PushResult(FALSE, catalog, <<"productUpdate">>, NullId, "", 0)
     ELSE LET row == CHOOSE x \in products : TRUE
              j == RemoteFind(catalog, row.shopify_id)
              applied == out = "ok" /\ j # 0
          IN PushResult(applied,
                        IF applied THEN RemoteUpdateTitle(catalog, j, row.title)
                                   ELSE catalog,
                        <<"productUpdate">>, row.shopify_id, row.title, 0)

syncTitleToShopify(d, catalog, productId, storeDomain, out) ==
  LET products == IF out = "db" THEN {} ELSE SelectById(d, productId, storeDomain)
  IN IF products = {}
     THEN PushResult(FALSE, catalog, <<>>, NullId, "", 0)
     ELSE LET row == CHOOSE x \in products : TRUE
              j == RemoteFind(catalog, row.shopify_id)
              applied == out = "ok" /\ j # 0
          IN PushResult(applied,
                        IF applied THEN RemoteUpdateTitle(catalog, j, row.title)
                                   ELSE catalog,
                        <<"productUpdate">>, row.shopify_id, row.title, 0)

\* variant: the check for an empty variant list is missing
syncInventoryToShopify_NoVariantCheck(d, catalog, productId, storeDomain, out) ==
  LET products == IF out = "db" THEN {} ELSE SelectById(d, productId, storeDomain)
  IN IF products = {}
     THEN PushResult(FALSE, catalog, <<>>, NullId, "", 0)
     ELSE LET row == CHOOSE x \in products : TRUE
              inventoryQuantity == OrZero(row.inventory_quantity)
              j == RemoteFind(catalog, row.shopify_id)
          IN IF out = "query" \/ j = 0
             THEN PushResult(FALSE, catalog, <<"getProduct">>,
                             row.shopify_id, "", inventoryQuantity)
             ELSE IF out = "set"
             THEN PushResult(FALSE, catalog, <<"getProduct", "inventorySetQuantities">>,
                             row.shopify_id, "", inventoryQuantity)
             ELSE PushResult(TRUE,
                             RemoteSetQuantities(catalog, j,
                               Quantities(catalog[j].variants, inventoryQuantity)),
                             <<"getProduct", "inventorySetQuantities">>,
                             row.shopify_id, "", inventoryQuantity)

syncInventoryToShopify(d, catalog, productId, storeDomain, out) ==
  LET products == IF out = "db" THEN {} ELSE SelectById(d, productId, storeDomain)
  IN IF products = {}
     THEN PushResult(FALSE, catalog, <<>>, NullId, "", 0)
     ELSE LET row == CHOOSE x \in products : TRUE
              inventoryQuantity == OrZero(row.inventory_quantity)
              j == RemoteFind(catalog, row.shopify_id)
              variants == IF out = "query" \/ j = 0 THEN <<>> ELSE catalog[j].variants
          IN IF Len(variants) = 0
             THEN PushResult(FALSE, catalog, <<"getProduct">>,
                             row.shopify_id, "", inventoryQuantity)
             ELSE IF out = "set"
             THEN PushResult(FALSE, catalog, <<"getProduct", "inventorySetQuantities">>,
                             row.shopify_id, "", inventoryQuantity)
             ELSE PushResult(TRUE,
                             RemoteSetQuantities(catalog, j,
                                                 Quantities(variants, inventoryQuantity)),
                             <<"getProduct", "inventorySetQuantities">>,
                             row.shopify_id, "", inventoryQuantity)

\* one iteration of syncShopifyToDB: "skipped" (no shopify_id), "threw"
\* (saveProductsToDB threw: no connection), "swallowed" (a statement failed inside
\* saveProductsToDB, which counts it and returns normally) or "written"
SaveOutcome(product, out) ==
  IF Falsy(ExtractShopifyId(product.id)) THEN "skipped"
  ELSE IF out = "db" THEN "threw"
  ELSE IF out = "exec" THEN "swallowed"
  ELSE "written"

\* syncShopifyToDB: errorCount++ when the id is missing or saveProductsToDB threw
CountsAsError(outcome) == outcome \in {"skipped", "threw"}

\* variant: STEP 5 moved in front of the inventory pushes
NextPhase_SaveFirst(pc) ==
  CASE pc = "title" -> "save"
    [] pc = "save" -> "inventory"
    [] pc = "inventory" -> "final"

\* the phases of action() in program order
NextPhase(pc) ==
  CASE pc = "title" -> "inventory"
    [] pc = "inventory" -> "save"
    [] pc = "save" -> "final"

\* variant: STEP 5 is skipped once a push has failed
Work_SkipsSaveAfterErrors(r) ==
  CASE run[r].pc = "title" -> run[r].titleChanges
    [] run[r].pc = "inventory" -> run[r].inventoryChanges
    [] run[r].pc = "save" ->
         IF run[r].titleSyncErrors + run[r].inventorySyncErrors > 0
         THEN <<>> ELSE run[r].shopifyProducts
    [] OTHER -> <<>>

\* what the for loop of the current phase iterates over
Work(r) ==
  CASE run[r].pc = "title" -> run[r].titleChanges
    [] run[r].pc = "inventory" -> run[r].inventoryChanges
    [] run[r].pc = "save" -> run[r].shopifyProducts
    [] OTHER -> <<>>

\* one entry of a request's history: a push (the delta's local value, what was
\* sent, the remote calls made) or an upsert (the remote record's values)
Event(op, ext, title, qty, sentTitle, sentQty, calls, ok) ==
  [op |-> op, ext |-> ext, title |-> title, qty |-> qty,
   sentTitle |-> sentTitle, sentQty |-> sentQty, calls |-> calls, ok |-> ok]

\* variant: a failed push is tried again
NextIndex_RetryOnFailure(i, success) == IF success THEN i + 1 ELSE i

\* for (const change of ...): the loop moves on whatever the push returned
NextIndex(i, success) == i + 1

\* variant: a failed fetch is taken for an empty answer and the run goes on
AfterFetch_GoesOn(ok) == "title"

\* variant: the error of a failed fetch is not caught and leaves action()
AfterFetch_Throws(ok) == IF ok THEN "title" ELSE "thrown"

\* data.data.products.edges of a failed fetch throws into the catch of action()
AfterFetch(ok) == IF ok THEN "title" ELSE "done"

FailureResult == [NoResult EXCEPT !.message = "Sync failed"]

\* the environment spends one of its failures on a call that does not go well
Inject(failing) ==
  /\ failing => faults > 0
  /\ faults' = IF failing THEN faults - 1 ELSE faults

(***************************************************************************)
(* The sync action, one step per awaited unit of work.                     *)
(***************************************************************************)
\* authenticate, STEP 1: getProductsFromAutoStoreTable(storeDomain)
StartRun(r, m, readOk) ==
  /\ run[r].pc = "idle"
  /\ \A q \in Runs : q < r => run[q].pc # "idle"
  /\ NoActiveRun
  /\ run' = [q \in Runs |->
       IF q = r
       THEN [IdleRun EXCEPT !.pc = "fetch", !.shop = m,
                            !.dbProducts = getProductsFromDB(db, m, readOk),
                            !.pre = RowsOf(db, m), !.preRemote = remote[m],
                            !.storeDown = ~readOk,
                            !.prior = {x \in Runs : run[x].pc \in {"done", "archived"}}]
       ELSE IF run[q].pc = "done" THEN Archived(q) ELSE run[q]]
  /\ Inject(~readOk)
  /\ UNCHANGED <<db, nextId, remote, opsDone, pool>>

\* STEP 2 and STEP 3: fetch and process the remote snapshot, detectChanges;
\* a failed fetch leaves through the catch of action()
FetchShopify(r, ok) ==
  /\ run[r].pc = "fetch"
  /\ LET m == run[r].shop
         shopifyProducts == ProcessShopifyProducts(ProductsResponse(remote[m]))
         changes == detectChanges(run[r].dbProducts, shopifyProducts)
     IN run' = [run EXCEPT ![r] =
          IF AfterFetch(ok) = "title"
          THEN [@ EXCEPT !.pc = "title", !.i = 1, !.fetched = ok,
                         !.dbProducts = DetectLeaves(@),
                         !.shopifyProducts = DetectLeaves(shopifyProducts),
                         !.titleChanges = changes.titleChanges,
                         !.inventoryChanges = changes.inventoryChanges]
          ELSE [@ EXCEPT !.pc = AfterFetch(ok), !.result = FailureResult,
                         !.post = RowsOf(db, m), !.postRemote = remote[m]]]
  /\ Inject(~ok)
  /\ UNCHANGED <<db, nextId, remote, opsDone, pool>>

\* the end of a for loop of STEP 4 or STEP 5
AdvancePhase(r) ==
  /\ run[r].pc \in {"title", "inventory", "save"}
  /\ run[r].i > Len(Work(r))
  /\ run' = [run EXCEPT ![r].pc = NextPhase(run[r].pc), ![r].i = 1]
  /\ UNCHANGED <<db, nextId, remote, opsDone, faults, pool>>

\* variant: the counter is incremented on both branches
Tally_Always(count, hit) == count + 1

\* if (...) counter++
Tally(count, hit) == IF hit THEN count + 1 ELSE count

\* STEP 4, one title change: syncTitleToShopify and the counters
PushTitle(r, out) ==
  /\ run[r].pc = "title"
  /\ run[r].i <= Len(Work(r))
  /\ LET m == run[r].shop
         change == run[r].titleChanges[run[r].i]
         res == syncTitleToShopify(db, remote[m], change.dbProductId, m, out)
     IN /\ remote' = [remote EXCEPT ![m] = res.catalog]
        /\ run' = [run EXCEPT
             ![r].i = NextIndex(@, res.success),
             ![r].titleSyncSuccess = Tally(@, res.success),
             ![r].titleSyncErrors = Tally(@, ~res.success),
             ![r].events = Append(@, Event("title", change.shopifyId, change.dbTitle, 0,
                                           res.title, 0, res.calls, res.success))]
  /\ Inject(out # "ok")
  /\ UNCHANGED <<db, nextId, opsDone, pool>>

\* STEP 4, one inventory change: syncInventoryToShopify and the counters
PushInventory(r, out) ==
  /\ run[r].pc = "inventory"
  /\ run[r].i <= Len(Work(r))
  /\ LET m == run[r].shop
         change == run[r].inventoryChanges[run[r].i]
         res == syncInventoryToShopify(db, remote[m], change.dbProductId, m, out)
     IN /\ remote' = [remote EXCEPT ![m] = res.catalog]
        /\ run' = [run EXCEPT
             ![r].i = NextIndex(@, res.success),
             ![r].inventorySyncSuccess = Tally(@, res.success),
             ![r].inventorySyncErrors = Tally(@, ~res.success),
             ![r].events = Append(@, Event("inventory", change.shopifyId, "",
                                           change.dbInventory, "", res.qty,
                                           res.calls, res.success))]
  /\ Inject(out # "ok")
  /\ UNCHANGED <<db, nextId, opsDone, pool>>

\* STEP 5, one remote product: the loop body of syncShopifyToDB with its call
\* of saveProductsToDB([productEdge], storeDomain)
SaveProduct(r, out) ==
  /\ run[r].pc = "save"
  /\ run[r].i <= Len(Work(r))
  /\ Falsy(ExtractShopifyId(run[r].shopifyProducts[run[r].i].id)) => out = "ok"
  /\ Inject(out # "ok")
  /\ LET m == run[r].shop
         product == run[r].shopifyProducts[run[r].i]
         shopifyId == ExtractShopifyId(product.id)
         outcome == SaveOutcome(product, out)
         inserted == SelectByShopifyId(db, shopifyId, m) = {}
     IN /\ db' = IF outcome = "written"
                 THEN UpsertProduct(db, nextId, shopifyId, product, m) ELSE db
        /\ nextId' = IF outcome = "written" /\ inserted THEN nextId + 1 ELSE nextId
        /\ run' = [run EXCEPT
             ![r].i = @ + 1,
             ![r].updatedCount = IF CountsAsError(outcome) THEN @ ELSE @ + 1,
             ![r].errorCount = IF CountsAsError(outcome) THEN @ + 1 ELSE @,
             ![r].storeDown = @ \/ outcome = "threw",
             ![r].events = Append(@, Event("upsert", shopifyId, product.title,
                                           OrZero(product.inventory), "", 0, <<>>,
                                           outcome = "written"))]
  /\ UNCHANGED <<remote, opsDone, pool>>

\* STEP 6 and the return of action()
Finish(r, readOk, statsOk) ==
  /\ run[r].pc = "final"
  /\ LET m == run[r].shop
     IN run' = [run EXCEPT
          ![r].pc = "done",
          ![r].post = RowsOf(db, m),
          ![r].postRemote = remote[m],
          ![r].result =
             [success |-> TRUE, message |-> "Sync completed!",
              titleSynced |-> run[r].titleSyncSuccess,
              inventorySynced |-> run[r].inventorySyncSuccess,
              pushErrors |-> run[r].titleSyncErrors + run[r].inventorySyncErrors,
              saved |-> 0,
              updated |-> run[r].updatedCount,
              errors |-> run[r].errorCount,
              products |-> getProductsFromDB(db, m, readOk),
              allStores |-> getAllStoresWithStats(db, statsOk)]]
  /\ Inject(~readOk \/ ~statsOk)
  /\ UNCHANGED <<db, nextId, remote, opsDone, pool>>

(***************************************************************************)
(* Store operations issued outside a run.                                  *)
(***************************************************************************)
CanOperate(m) == opsDone[ShopA] + opsDone[ShopB] < MaxOps /\ NoActiveRun

UpdateProductInventory(m, productId, newInventory) ==
  /\ CanOperate(m)
  /\ db' = updateProductInventory(db, productId, newInventory, m)
  /\ opsDone' = [opsDone EXCEPT ![m] = @ + 1]
  /\ UNCHANGED <<nextId, remote, run, faults, pool>>

ResetDatabase(m) ==
  /\ CanOperate(m)
  /\ db' = resetDatabase(db, m)
  /\ opsDone' = [opsDone EXCEPT ![m] = @ + 1]
  /\ UNCHANGED <<nextId, remote, run, faults, pool>>

\* webhooks.app.uninstalled: DELETE FROM products WHERE store_domain = shop
UninstallDelete(d, shop) == d \ {row \in d : row.store_domain = shop}

AppUninstalled(m) ==
  /\ CanOperate(m)
  /\ db' = UninstallDelete(db, m)
  /\ opsDone' = [opsDone EXCEPT ![m] = @ + 1]
  /\ UNCHANGED <<nextId, remote, run, faults, pool>>

RunStep ==
  \/ \E r \in Runs, m \in Merchants, readOk \in BOOLEAN : StartRun(r, m, readOk)
  \/ \E r \in Runs, ok \in BOOLEAN : FetchShopify(r, ok)
  \/ \E r \in Runs : AdvancePhase(r)
  \/ \E r \in Runs, out \in {"ok", "db", "api"} : PushTitle(r, out)
  \/ \E r \in Runs, out \in {"ok", "db", "query", "set"} : PushInventory(r, out)
  \/ \E r \in Runs, out \in {"ok", "db", "exec"} : SaveProduct(r, out)
  \/ \E r \in Runs, readOk \in BOOLEAN, statsOk \in BOOLEAN : Finish(r, readOk, statsOk)

StoreStep ==
  \/ \E m \in Merchants, productId \in {row.id : row \in db},
        newInventory \in 0..MaxQuantity : UpdateProductInventory(m, productId, newInventory)
  \/ \E m \in Merchants : ResetDatabase(m)
  \/ \E m \in Merchants : AppUninstalled(m)

\* sync requests, one after the other
Next == RunStep

Spec == Init /\ [][Next]_vars

\* one sync request among store operations
NextStore ==
  \/ RunStep /\ run[1].pc # "done" /\ run'[1].pc # "archived"
  \/ StoreStep

SpecStore == Init /\ [][NextStore]_vars


(***************************************************************************)
(* Overlapping sync requests of one merchant.  Nothing serializes two      *)
(* invocations of action(): each await is a point where the other request  *)
(* may run, so the SELECT of saveProductsToDB and the UPDATE / INSERT that *)
(* follows it are separate steps here.                                     *)
(***************************************************************************)
\* variant: the table has no unique key
UniqueKeyAdmits_NoKey(d, shopifyId, storeDomain) == TRUE

\* UNIQUE KEY unique_shopify_product (shopify_id, store_domain): an INSERT of
\* a pair the table already holds is rejected (duplicate entry)
UniqueKeyAdmits(d, shopifyId, storeDomain) ==
  SelectByShopifyId(d, shopifyId, storeDomain) = {}

\* UPDATE products SET title = ?, ..., inventory_quantity = ?
\* WHERE shopify_id = ? AND store_domain = ?
UpdateProduct(d, shopifyId, product, storeDomain) ==
  {IF row.shopify_id = shopifyId /\ row.store_domain = storeDomain
     THEN [row EXCEPT !.title = product.title,
                      !.inventory_quantity = OrZero(product.inventory)]
     ELSE row : row \in d}

\* INSERT INTO products (shopify_id, title, ..., inventory_quantity, store_domain)
InsertProduct(d, newId, shopifyId, product, storeDomain) ==
  IF UniqueKeyAdmits(d, shopifyId, storeDomain)
  THEN d \cup {[id |-> newId, shopify_id |-> shopifyId, title |-> product.title,
                inventory_quantity |-> OrZero(product.inventory),
                store_domain |-> storeDomain]}
  ELSE d

\* action() entered while other requests may be in progress: STEP 1
StartOverlapping(r, m) ==
  /\ run[r].pc = "idle"
  /\ \A q \in Runs : q < r => run[q].pc # "idle"
  /\ run' = [run EXCEPT ![r] =
       [IdleRun EXCEPT !.pc = "fetch", !.shop = m,
                       !.dbProducts = getProductsFromDB(db, m, TRUE),
                       !.pre = RowsOf(db, m), !.preRemote = remote[m]]]
  /\ UNCHANGED <<db, nextId, remote, opsDone, faults, pool>>

\* variant: phase 5 is a critical section, entered while no other request
\* is between its first and its last upsert
SaveAdmits_OneAtATime(r) ==
  \A q \in Runs \ {r} :
    ~(run[q].pc = "save" /\ run[q].i > 1 /\ run[q].i <= Len(Work(q)))

\* what an upsert of phase 5 waits for before it is issued: action() and
\* syncShopifyToDB take no lock and open no transaction
SaveAdmits(r) == TRUE

\* STEP 5, one remote product, first half: the id check of syncShopifyToDB
\* and the SELECT of saveProductsToDB
SelectExisting(r) ==
  /\ run[r].pc = "save"
  /\ run[r].i <= Len(Work(r))
  /\ run[r].found = "?"
  /\ SaveAdmits(r)
  /\ LET m == run[r].shop
         product == run[r].shopifyProducts[run[r].i]
         shopifyId == ExtractShopifyId(product.id)
     IN run' = [run EXCEPT ![r] =
          IF Falsy(shopifyId)
          THEN [@ EXCEPT !.i = @ + 1, !.errorCount = @ + 1,
                         !.events = Append(@, Event("upsert", shopifyId, product.title,
                                                    OrZero(product.inventory), "", 0,
                                                    <<>>, FALSE))]
          ELSE [@ EXCEPT !.found =
                  IF SelectByShopifyId(db, shopifyId, m) # {} THEN "yes" ELSE "no"]]
  /\ UNCHANGED <<db, nextId, remote, opsDone, faults, pool>>

\* STEP 5, second half: the UPDATE or the INSERT the SELECT decided on; a
\* rejected INSERT is caught inside saveProductsToDB and syncShopifyToDB
\* counts the record as updated all the same
WriteProduct(r) ==
  /\ run[r].pc = "save"
  /\ run[r].found # "?"
  /\ LET m == run[r].shop
         product == run[r].shopifyProducts[run[r].i]
         shopifyId == ExtractShopifyId(product.id)
         stored == run[r].found = "yes" \/ UniqueKeyAdmits(db, shopifyId, m)
     IN /\ db' = IF run[r].found = "yes"
                 THEN UpdateProduct(db, shopifyId, product, m)
                 ELSE InsertProduct(db, nextId, shopifyId, product, m)
        /\ nextId' = IF run[r].found = "no" /\ stored THEN nextId + 1 ELSE nextId
        /\ run' = [run EXCEPT
             ![r].i = @ + 1,
             ![r].found = "?",
             ![r].updatedCount = @ + 1,
             ![r].events = Append(@, Event("upsert", shopifyId, product.title,
                                           OrZero(product.inventory), "", 0, <<>>,
                                           stored))]
  /\ UNCHANGED <<remote, opsDone, faults, pool>>

InitOverlap ==
  /\ db \in {sa \cup sb : sa \in StoresA, sb \in StoresB}
  /\ nextId = FirstFreeId
  /\ remote \in {[m \in Merchants |-> IF m = ShopA THEN c ELSE CatalogB] : c \in CatalogsA}
  /\ run = [r \in Runs |-> IdleRun]
  /\ opsDone = [m \in Merchants |-> 0]
  /\ faults = 0
  /\ pool = EmptyPool

NextOverlap ==
  \/ \E r \in Runs : StartOverlapping(r, ShopA)
  \/ \E r \in Runs : FetchShopify(r, TRUE)
  \/ \E r \in Runs : AdvancePhase(r)
  \/ \E r \in Runs : PushTitle(r, "ok")
  \/ \E r \in Runs : PushInventory(r, "ok")
  \/ \E r \in Runs : SelectExisting(r)
  \/ \E r \in Runs : WriteProduct(r)
  \/ \E r \in Runs : Finish(r, TRUE, TRUE)

\* overlapping sync requests of one merchant, every call succeeding
SpecOverlap == InitOverlap /\ [][NextOverlap]_vars

(***************************************************************************)
(* Store operations and the webhook arriving while a request is in         *)
(* progress: they are separate HTTP requests and wait for nothing.         *)
(***************************************************************************)
Interferes(m) ==
  /\ opsDone[ShopA] + opsDone[ShopB] < MaxOps
  /\ \E r \in Runs : Active(r) /\ run[r].shop = m

EditDuringRun(m, productId, newInventory) ==
  /\ Interferes(m)
  /\ db' = updateProductInventory(db, productId, newInventory, m)
  /\ opsDone' = [opsDone EXCEPT ![m] = @ + 1]
  /\ UNCHANGED <<nextId, remote, run, faults, pool>>

ResetDuringRun(m) ==
  /\ Interferes(m)
  /\ db' = resetDatabase(db, m)
  /\ opsDone' = [opsDone EXCEPT ![m] = @ + 1]
  /\ UNCHANGED <<nextId, remote, run, faults, pool>>

UninstallDuringRun(m) ==
  /\ Interferes(m)
  /\ db' = UninstallDelete(db, m)
  /\ opsDone' = [opsDone EXCEPT ![m] = @ + 1]
  /\ UNCHANGED <<nextId, remote, run, faults, pool>>

NextRace ==
  \/ NextOverlap
  \/ \E productId \in {row.id : row \in RowsOf(db, ShopA)}, newInventory \in 0..MaxQuantity :
        EditDuringRun(ShopA, productId, newInventory)
  \/ ResetDuringRun(ShopA)
  \/ UninstallDuringRun(ShopA)

\* the stores in which both records carry a local edit
StoresRace ==
  {s \in StoresA : {Row(1, "1", "Old", 1, ShopA), Row(2, "2", "Old", 1, ShopA)} \subseteq s}

InitRace ==
  /\ db \in {sa \cup sb : sa \in StoresRace, sb \in StoresB}
  /\ nextId = FirstFreeId
  /\ remote \in {[m \in Merchants |-> IF m = ShopA THEN c ELSE CatalogB] : c \in CatalogsA}
  /\ run = [r \in Runs |-> IdleRun]
  /\ opsDone = [m \in Merchants |-> 0]
  /\ faults = 0
  /\ pool = EmptyPool

\* overlapping sync requests of one merchant among store operations
SpecRace == InitRace /\ [][NextRace]_vars

(***************************************************************************)
(* detectChanges over a wider range of snapshots: the first three steps of *)
(* action() from every store and catalog below.                            *)
(***************************************************************************)
\* rows of one merchant: titles equal to and different from the remote ones,
\* quantities NULL, 0 and positive, externalIds present, NULL and empty
StoresDetect ==
  { r1 \cup r2 \cup r3 :
      r1 \in { {} } \cup { {Row(1, "1", t, q, ShopA)} :
                             t \in {"Old", "New"}, q \in {NoInventory, 0, 1, 2} },
      r2 \in { {}, {Row(2, "2", "Old", 0, ShopA)}, {Row(2, "2", "New", 1, ShopA)} },
      r3 \in { {}, {Row(3, NullId, "Old", 0, ShopA)}, {Row(3, "", "New", 1, ShopA)} } }

ProductsDetect ==
  { Product(id, t, v) :
      id \in {Gid("1"), <<"1">>, Gid("2"), NullRaw},
      t \in {"Old", "New"},
      v \in {<<>>, <<1>>, <<1, 1>>} }

CatalogsDetect == UNION {[1..n -> ProductsDetect] : n \in 0..MaxRemote}

InitDetect ==
  /\ db \in StoresDetect
  /\ nextId = FirstFreeId
  /\ remote \in {[m \in Merchants |-> IF m = ShopA THEN c ELSE <<>>] : c \in CatalogsDetect}
  /\ run = [r \in Runs |-> IdleRun]
  /\ opsDone = [m \in Merchants |-> 0]
  /\ faults = 0
  /\ pool = EmptyPool

NextDetect ==
  \/ \E r \in Runs : StartRun(r, ShopA, TRUE)
  \/ \E r \in Runs : FetchShopify(r, TRUE)

\* STEP 1 to STEP 3 of action(), up to the return of detectChanges
SpecDetect == InitDetect /\ [][NextDetect]_vars

(***************************************************************************)
(* The connection pool.  A unit of work is followed from await to await;   *)
(* the units are counted per step, the pool by the connections checked out.*)
(***************************************************************************)
MaxUnits == 3
MaxSaves == 20

\* where a unit of work stands next when the await it stands at has ended,
\* by returning (ok) or by throwing
AfterStep(step, ok) ==
  CASE step = "read.getDB" -> IF ok THEN "read.execute" ELSE "returned"
    [] step = "read.execute" -> "returned"
    [] step = "save.getDB" -> IF ok THEN "save.schema.getDB" ELSE "returned"
    [] step = "save.schema.getDB" -> IF ok THEN "save.schema.execute" ELSE "save.execute"
    [] step = "save.schema.execute" -> "save.execute"
    [] step = "save.execute" -> "returned"
    [] step = "push.getDB" -> IF ok THEN "push.select" ELSE "returned"
    [] step = "push.select" -> IF ok THEN "push.graphql" ELSE "returned"
    [] step = "push.graphql" -> "returned"
    [] step = "uninstall.getDB" -> IF ok THEN "uninstall.execute" ELSE "returned"
    [] step = "uninstall.execute" -> "returned"

\* the calls of connection.release() on the way from a step to the next:
\* the finally blocks of the store and push functions, and the statement
\* after the DELETE of the webhook, which a throwing DELETE jumps over
Released(step, ok) ==
  CASE step \in GetDBSteps -> 0
    [] step \in {"read.execute", "save.schema.execute", "save.execute", "push.graphql"} -> 1
    [] step = "push.select" -> IF ok THEN 0 ELSE 1
    [] step = "uninstall.execute" -> IF ok THEN 1 ELSE 0

Move(from, to, released) ==
  LET left == [pool.at EXCEPT ![from] = @ - 1]
  IN [pool EXCEPT !.held = @ - released, !.at = [left EXCEPT ![to] = @ + 1]]

\* a store function, a push function or the webhook is called
Call(kind, limit) ==
  /\ pool.started < limit
  /\ pool' = [pool EXCEPT !.started = @ + 1, !.at[EntryOf(kind)] = @ + 1]
  /\ UNCHANGED <<db, nextId, remote, run, opsDone, faults>>

\* pool.getConnection() hands out a connection; while connectionLimit
\* connections are out the caller stays queued (waitForConnections)
GetDB(step) ==
  /\ step \in GetDBSteps
  /\ pool.at[step] > 0
  /\ pool.held < connectionLimit
  /\ pool' = Move(step, AfterStep(step, TRUE), -1)
  /\ UNCHANGED <<db, nextId, remote, run, opsDone, faults>>

\* an await other than a served getDB ends: a statement or a remote call
\* returns or throws, or a new connection cannot be opened
Leave(step, ok) ==
  /\ step \in Steps \ {"returned"}
  /\ pool.at[step] > 0
  /\ step \in GetDBSteps => ~ok /\ pool.held < connectionLimit
  /\ pool' = Move(step, AfterStep(step, ok), Released(step, ok))
  /\ UNCHANGED <<db, nextId, remote, run, opsDone, faults>>

InitPool ==
  /\ db = {}
  /\ nextId = FirstFreeId
  /\ remote = [m \in Merchants |-> <<>>]
  /\ run = [r \in Runs |-> IdleRun]
  /\ opsDone = [m \in Merchants |-> 0]
  /\ faults = 0
  /\ pool = EmptyPool

NextPool ==
  \/ \E kind \in Kinds : Call(kind, MaxUnits)
  \/ \E step \in Steps : GetDB(step)
  \/ \E step \in Steps, ok \in BOOLEAN : Leave(step, ok)

\* a few overlapping units of work of every kind
SpecPool == InitPool /\ [][NextPool]_vars

NextSaves ==
  \/ Call("save", MaxSaves)
  \/ \E step \in Steps : GetDB(step)
  \/ \E step \in Steps, ok \in BOOLEAN : Leave(step, ok)

\* overlapping calls of saveProductsToDB, as many as the pool has connections
SpecSaves == InitPool /\ [][NextSaves]_vars

(***************************************************************************)
(* Vocabulary of the properties.                                           *)
(***************************************************************************)
Max(S) == CHOOSE x \in S : \A y \in S : y <= x

Done(r) == run[r].pc = "done"

\* the request went through all phases and returned its report
Completed(r) == Done(r) /\ run[r].result.success

IsUpsert(e) == e.op = "upsert"
IsPush(e) == e.op # "upsert"
IsTitlePush(e) == e.op = "title"
IsInventoryPush(e) == e.op = "inventory"

Events(r) == run[r].events
Upserts(r) == SelectSeq(run[r].events, IsUpsert)
TitlePushes(r) == SelectSeq(run[r].events, IsTitlePush)
InventoryPushes(r) == SelectSeq(run[r].events, IsInventoryPush)

SnapshotId(r, k) == ExtractShopifyId(run[r].shopifyProducts[k].id)
SnapshotIds(r) == {SnapshotId(r, k) : k \in 1..Len(run[r].shopifyProducts)}

\* positions of the snapshot whose upsert was stored, and their externalIds
WrittenAt(r) == {k \in 1..Len(Upserts(r)) : Upserts(r)[k].ok}
WrittenIds(r) == {Upserts(r)[k].ext : k \in WrittenAt(r)}
LastWritten(r, x) == Max({k \in WrittenAt(r) : Upserts(r)[k].ext = x})

OccursOnce(ids, x) == Cardinality({k \in 1..Len(ids) : ids[k] = x}) = 1

\* the inventory a fetch of the remote catalog reports for its j-th product
RemoteInventory(catalog, j) ==
  ProcessShopifyProducts(ProductsResponse(catalog))[j].inventory

CarriesRemote(row, product) ==
  row.title = product.title /\ row.inventory_quantity = product.inventory

(***************************************************************************)
(* C1                                                                      *)
(***************************************************************************)
\* C1, as stated: after a complete run the rows of the merchant are, keyed by
\* externalId, exactly the records of the remote snapshot: the same set of
\* externalIds, each row with the snapshot's title and inventory.
C1_StoreEqualsSnapshot ==
  \A r \in Runs : Completed(r) =>
    /\ {row.shopify_id : row \in run[r].post} = {x \in SnapshotIds(r) : ~Falsy(x)}
    /\ \A row \in run[r].post :
         \E k \in 1..Len(run[r].shopifyProducts) :
           SnapshotId(r, k) = row.shopify_id /\ CarriesRemote(row, run[r].shopifyProducts[k])

\* C1, amended: after a complete run every externalId of the remote snapshot
\* with a stored upsert has exactly one row of the merchant, carrying the title
\* and inventory of the last stored remote record of that externalId; every
\* other row of the merchant is exactly what it was before the run (rows
\* absent from the remote snapshot stay).
C1_StoredRecordsConverge ==
  \A r \in Runs : Completed(r) =>
    /\ \A x \in WrittenIds(r) :
         LET rows == {row \in run[r].post : row.shopify_id = x}
         IN /\ Cardinality(rows) = 1
            /\ \A row \in rows :
                 CarriesRemote(row, run[r].shopifyProducts[LastWritten(r, x)])
    /\ {row \in run[r].post : row.shopify_id \notin WrittenIds(r)}
         = {row \in run[r].pre : row.shopify_id \notin WrittenIds(r)}

\* a complete run that overwrote a row, inserted none for a local-only row
C1_Witness ==
  \E r \in Runs :
    /\ Completed(r)
    /\ \E row \in run[r].pre : row.shopify_id \notin SnapshotIds(r) /\ row \in run[r].post
    /\ \E row \in run[r].pre : row.shopify_id \in WrittenIds(r) /\ row \notin run[r].post

(***************************************************************************)
(* C2                                                                      *)
(***************************************************************************)
\* C2, as stated: in every run that obtained both snapshots every remote record
\* with a non-empty externalId is upserted and its row ends the run with that
\* record's title and inventory.
C2_EveryRecordOverwrites ==
  \A r \in Runs : Done(r) /\ run[r].fetched =>
    \A k \in 1..Len(run[r].shopifyProducts) :
      ~Falsy(SnapshotId(r, k)) =>
        \E row \in run[r].post :
          row.shopify_id = SnapshotId(r, k) /\ CarriesRemote(row, run[r].shopifyProducts[k])

\* C2, amended: in every run that obtained both snapshots, whatever phase 4
\* did, phase 5 hands every remote record to the upsert, in snapshot order; a
\* record with a non-empty externalId whose upsert is stored, and after which
\* no record of the same externalId is stored, has its row end the run with
\* its title and inventory.
C2_OverwriteUnconditional ==
  \A r \in Runs : Done(r) /\ run[r].fetched =>
    /\ Len(Upserts(r)) = Len(run[r].shopifyProducts)
    /\ \A k \in 1..Len(run[r].shopifyProducts) :
         /\ Upserts(r)[k].ext = SnapshotId(r, k)
         /\ ~Falsy(SnapshotId(r, k)) /\ k \in WrittenAt(r)
              /\ k = LastWritten(r, SnapshotId(r, k))
            => \E row \in run[r].post :
                 /\ row.shopify_id = SnapshotId(r, k)
                 /\ CarriesRemote(row, run[r].shopifyProducts[k])

\* a run with a failed push whose phase 5 replaced a differing local title
C2_Witness ==
  \E r \in Runs :
    /\ Completed(r)
    /\ run[r].result.pushErrors > 0
    /\ \E k \in WrittenAt(r) : \E row \in run[r].pre :
         /\ row.shopify_id = SnapshotId(r, k)
         /\ row.title # run[r].shopifyProducts[k].title
         /\ \E now \in run[r].post :
              now.id = row.id /\ now.title = run[r].shopifyProducts[k].title

(***************************************************************************)
(* C3                                                                      *)
(***************************************************************************)
\* C3: within one run no push (update-title, query-variants, set-inventory)
\* comes after an upsert: every remote write call of phase 4 is over before
\* the first upsert of phase 5.
C3_PushesBeforeUpserts ==
  \A r \in Runs : \A a, b \in 1..Len(Events(r)) :
    a < b /\ IsUpsert(Events(r)[a]) => IsUpsert(Events(r)[b])

\* a run that called the remote system and then stored an upsert
C3_Witness ==
  \E r \in Runs : \E a, b \in 1..Len(Events(r)) :
    /\ a < b
    /\ IsInventoryPush(Events(r)[a]) /\ Len(Events(r)[a].calls) = 2
    /\ IsUpsert(Events(r)[b]) /\ Events(r)[b].ok

(***************************************************************************)
(* C4                                                                      *)
(***************************************************************************)
\* C4: every detected delta gets exactly one push attempt, in detection order,
\* never more while the run goes; a failed push does not stop the run: a run
\* that obtained both snapshots ends with a success report, every delta
\* attempted once and every remote record handed to phase 5.
C4_OneAttemptPerDelta ==
  \A r \in Runs :
    /\ Len(TitlePushes(r)) <= Len(run[r].titleChanges)
    /\ Len(InventoryPushes(r)) <= Len(run[r].inventoryChanges)
    /\ \A k \in 1..Len(TitlePushes(r)) :
         TitlePushes(r)[k].ext = run[r].titleChanges[k].shopifyId
    /\ \A k \in 1..Len(InventoryPushes(r)) :
         InventoryPushes(r)[k].ext = run[r].inventoryChanges[k].shopifyId
    /\ Done(r) /\ run[r].fetched =>
         /\ run[r].result.success
         /\ Len(TitlePushes(r)) = Len(run[r].titleChanges)
         /\ Len(InventoryPushes(r)) = Len(run[r].inventoryChanges)
         /\ Len(Upserts(r)) = Len(run[r].shopifyProducts)

\* a complete run in which a push failed and a later delta was still pushed
C4_Witness ==
  \E r \in Runs :
    /\ Completed(r)
    /\ \E a, b \in 1..Len(Events(r)) :
         /\ a < b
         /\ IsPush(Events(r)[a]) /\ ~Events(r)[a].ok
         /\ IsPush(Events(r)[b]) /\ Events(r)[b].ok
    /\ Upserts(r) # <<>>

(***************************************************************************)
(* C5                                                                      *)
(***************************************************************************)
EventSet(r) == {Events(r)[k] : k \in 1..Len(Events(r))}
FailedPushes(r) == {e \in EventSet(r) : IsPush(e) /\ ~e.ok}

\* the row / the remote product of externalId x holds the value a push carried
RowHolds(rows, x, op, title, qty) ==
  \E row \in rows :
    /\ row.shopify_id = x
    /\ IF op = "title" THEN row.title = title
                       ELSE OrZero(row.inventory_quantity) = qty

RemoteHolds(catalog, x, op, title, qty) ==
  \E j \in 1..Len(catalog) :
    /\ ExtractShopifyId(catalog[j].id) = x
    /\ IF op = "title" THEN catalog[j].title = title
                       ELSE RemoteInventory(catalog, j) = qty

\* a later request pushed that value for x again
PushedAgain(r, x, op, title, qty) ==
  \E e \in EventSet(r) :
    /\ e.op = op /\ e.ext = x
    /\ IF op = "title" THEN e.title = title \/ e.sentTitle = title
                       ELSE e.qty = qty \/ (e.calls # <<>> /\ e.sentQty = qty)

\* the earlier, archived requests of the same merchant
EarlierRuns(r) ==
  {q \in run[r].prior : run[q].pc = "archived" /\ run[q].shop = run[r].shop}

\* C5, as stated: when the push of a local edit on record X fails, after the
\* run neither the Local Store nor the remote system holds the pre-run local
\* value, and no later run pushes it.
C5_FailedPushLosesEdit ==
  /\ \A r \in Runs : Completed(r) =>
       \A e \in FailedPushes(r) :
         /\ ~RowHolds(run[r].post, e.ext, e.op, e.title, e.qty)
         /\ ~RemoteHolds(run[r].postRemote, e.ext, e.op, e.title, e.qty)
  /\ \A r \in Runs : \A q \in EarlierRuns(r) : \A f \in run[q].failed :
       ~PushedAgain(r, f.ext, f.op, f.title, f.qty)

\* C5, amended: when the push of a local edit on record X fails in a complete
\* run, X occurs once in the remote snapshot and the phase-5 upsert of X is
\* stored, then after the run neither the Local Store row of X nor the remote
\* record of X holds the pre-run local value of the edited field, and with no
\* edit from outside no later run of the merchant pushes that value for X.
C5_FailedPushLosesEditOnceOverwritten ==
  /\ \A r \in Runs : Completed(r) =>
       \A e \in FailedPushes(r) :
         e.ext \in WrittenIds(r)
           /\ OccursOnce([k \in 1..Len(run[r].shopifyProducts) |-> SnapshotId(r, k)], e.ext)
         => /\ ~RowHolds(run[r].post, e.ext, e.op, e.title, e.qty)
            /\ ~RemoteHolds(run[r].postRemote, e.ext, e.op, e.title, e.qty)
  /\ \A r \in Runs : \A q \in EarlierRuns(r) : \A f \in run[q].failed :
       f.ext \in run[q].written /\ OccursOnce(run[q].snapshotIds, f.ext)
         => ~PushedAgain(r, f.ext, f.op, f.title, f.qty)

\* a second complete run of a merchant whose first run lost a title edit
C5_Witness ==
  \E r \in Runs :
    /\ Completed(r)
    /\ \E q \in EarlierRuns(r) : \E f \in run[q].failed :
         /\ f.op = "title"
         /\ f.ext \in run[q].written
         /\ OccursOnce(run[q].snapshotIds, f.ext)
         /\ \E row \in run[r].pre : row.shopify_id = f.ext /\ row.title # f.title

(***************************************************************************)
(* C6                                                                      *)
(***************************************************************************)
\* C6: the push of a delta's local value comes before the overwrite of its
\* row, and when the push succeeds the remote system holds the record's
\* pre-run local value at the end of the run.
C6_SuccessfulPushReachesRemote ==
  \A r \in Runs : Completed(r) =>
    \A a \in 1..Len(Events(r)) :
      LET e == Events(r)[a]
      IN IsPush(e) /\ e.ok =>
           /\ \A b \in 1..Len(Events(r)) : IsUpsert(Events(r)[b]) => a < b
           /\ RemoteHolds(run[r].postRemote, e.ext, e.op, e.title, e.qty)

(***************************************************************************)
(* C7                                                                      *)
(***************************************************************************)
\* C7: a run whose remote snapshot could not be fetched returns one failure
\* result (success = false, with a message), has made no remote write call
\* and no upsert, and leaves the rows of the Local Store and the remote
\* catalog as they were.
C7_FetchFailureLeavesAllUntouched ==
  \A r \in Runs : Done(r) /\ ~run[r].fetched =>
    /\ ~run[r].result.success
    /\ run[r].result.message # ""
    /\ Events(r) = <<>>
    /\ run[r].post = run[r].pre
    /\ run[r].postRemote = run[r].preRemote
    /\ db = {row \in db : row.store_domain # run[r].shop} \cup run[r].pre

\* a run over a non-empty store and a differing remote catalog whose fetch failed
C7_Witness ==
  \E r \in Runs :
    /\ Done(r) /\ ~run[r].fetched
    /\ run[r].pre # {}
    /\ detectChanges(run[r].dbProducts,
                     ProcessShopifyProducts(ProductsResponse(run[r].preRemote))).titleChanges
         # <<>>

(***************************************************************************)
(* C8                                                                      *)
(***************************************************************************)
\* C8: a run during which the Local Store was unreachable (the read of the
\* local snapshot failed, or no connection for an upsert) returns a failure
\* result, not a success report.
C8_StoreDownReportsFailure ==
  \A r \in Runs : Done(r) /\ run[r].storeDown => ~run[r].result.success

(***************************************************************************)
(* C9                                                                      *)
(***************************************************************************)
\* C9: a step changes the rows of a merchant only if it is a store operation
\* called with that merchant's key or a step of a run for that merchant: no
\* run and no store operation inserts, changes or deletes a row of another
\* merchant.
C9_ScopedByMerchant ==
  [][\A m \in Merchants :
       RowsOf(db', m) # RowsOf(db, m) =>
         \/ opsDone'[m] # opsDone[m]
         \/ \E r \in Runs : Active(r) /\ run[r].shop = m]_vars

\* one merchant synced and then reset, the other merchant's rows in place
C9_Witness ==
  /\ opsDone[ShopA] = 1
  /\ RowsOf(db, ShopA) = {}
  /\ RowsOf(db, ShopB) # {}
  /\ \E r \in Runs : Done(r) /\ run[r].shop = ShopA /\ run[r].post # run[r].pre

(***************************************************************************)
(* C10                                                                     *)
(***************************************************************************)
\* C10: the result of a run for a merchant is what it would be with the rows
\* of every other merchant removed: its product list and its store statistics
\* are computed from that merchant's rows only.
C10_ResultFromOwnRowsOnly ==
  \A r \in Runs : Completed(r) =>
    LET own == RowsOf(db, run[r].shop)
    IN /\ \E readOk \in BOOLEAN :
            run[r].result.products = getProductsFromDB(own, run[r].shop, readOk)
       /\ \E statsOk \in BOOLEAN :
            run[r].result.allStores = getAllStoresWithStats(own, statsOk)

(***************************************************************************)
(* C11                                                                     *)
(***************************************************************************)
\* C11: a run deletes no row of the Local Store: every row the merchant had
\* before the run is still there after it, and a row whose externalId is
\* empty or does not occur in the remote snapshot (an empty snapshot
\* included) is identical to what it was.
C11_NoRowDeleted ==
  \A r \in Runs : Done(r) =>
    \A row \in run[r].pre :
      /\ \E now \in run[r].post : now.id = row.id /\ now.shopify_id = row.shopify_id
      /\ Falsy(row.shopify_id) \/ row.shopify_id \notin SnapshotIds(r)
           => row \in run[r].post

\* a complete run that stored an upsert while the merchant had a row without
\* externalId and a row absent from the remote snapshot
C11_Witness ==
  \E r \in Runs :
    /\ Completed(r)
    /\ WrittenAt(r) # {}
    /\ \E row \in run[r].pre : Falsy(row.shopify_id)
    /\ \E row \in run[r].pre : ~Falsy(row.shopify_id) /\ row.shopify_id \notin SnapshotIds(r)

(***************************************************************************)
(* C12                                                                     *)
(***************************************************************************)
\* C12: in every reachable state, overlapping runs of one merchant that both
\* check and then insert the same remote record included, the Local Store
\* holds at most one row per (merchantKey, externalId) with a non-empty
\* externalId.
C12_UniqueExternalId ==
  \A a \in db : \A b \in db :
    /\ a.store_domain = b.store_domain
    /\ a.shopify_id = b.shopify_id
    /\ ~Falsy(a.shopify_id)
    => a = b

\* two overlapping runs both found no row for a record and both issued the
\* INSERT: one of the two was rejected
C12_Witness ==
  \E r \in Runs : \E q \in Runs \ {r} :
    \E e \in EventSet(r) : \E f \in EventSet(q) :
      /\ IsUpsert(e) /\ IsUpsert(f) /\ e.ext = f.ext /\ ~Falsy(e.ext)
      /\ e.ok /\ ~f.ok
      /\ \A row \in run[r].pre \cup run[q].pre : row.shopify_id # e.ext

(***************************************************************************)
(* C13                                                                     *)
(***************************************************************************)
\* the local snapshot and the deltas of a request whose detectChanges returned
Detected(r) == run[r].pc = "title" /\ run[r].fetched
LocalRecords(r) == {run[r].dbProducts[k] : k \in 1..Len(run[r].dbProducts)}
TitleDeltasOf(r, row) ==
  {k \in 1..Len(run[r].titleChanges) : run[r].titleChanges[k].dbProductId = row.id}
InventoryDeltasOf(r, row) ==
  {k \in 1..Len(run[r].inventoryChanges) :
     run[r].inventoryChanges[k].dbProductId = row.id}

\* C13: a local record whose title equals the title of the remote record
\* detect matches it to gets no title delta.
C13_EqualTitleNoDelta ==
  \A r \in Runs : Detected(r) =>
    \A row \in LocalRecords(r) :
      LET j == MatchOf(row, run[r].shopifyProducts)
      IN j # 0 /\ row.title = run[r].shopifyProducts[j].title
           => TitleDeltasOf(r, row) = {}

\* a record with the remote title and another quantity, next to a record with
\* another title: detect reported the second title, not the first
C13_Witness ==
  \E r \in Runs :
    /\ Detected(r)
    /\ \E row \in LocalRecords(r) :
         LET j == MatchOf(row, run[r].shopifyProducts)
         IN /\ j # 0 /\ row.title = run[r].shopifyProducts[j].title
            /\ InventoryDeltasOf(r, row) # {}
    /\ run[r].titleChanges # <<>>

(***************************************************************************)
(* C14                                                                     *)
(***************************************************************************)
\* C14: for a local record matched to a remote record, detect returns exactly
\* one inventory delta, carrying the local and the remote quantity, when the
\* two quantities differ, and none when they are equal (a missing quantity
\* counts as 0); no record gets two inventory deltas.
C14_OneInventoryDelta ==
  \A r \in Runs : Detected(r) =>
    \A row \in LocalRecords(r) :
      LET j == MatchOf(row, run[r].shopifyProducts)
          local == OrZero(row.inventory_quantity)
          there == OrZero(run[r].shopifyProducts[j].inventory)
      IN /\ Cardinality(InventoryDeltasOf(r, row)) <= 1
         /\ j # 0 /\ local # there =>
              \E k \in InventoryDeltasOf(r, row) :
                /\ run[r].inventoryChanges[k].dbInventory = local
                /\ run[r].inventoryChanges[k].shopifyInventory = there
                /\ run[r].inventoryChanges[k].shopifyId = row.shopify_id
         /\ j # 0 /\ local = there => InventoryDeltasOf(r, row) = {}

\* one record with fewer units than the remote record, one with the remote
\* quantity (NULL against a product without variants)
C14_Witness ==
  \E r \in Runs :
    /\ Detected(r)
    /\ \E row \in LocalRecords(r) :
         LET j == MatchOf(row, run[r].shopifyProducts)
         IN /\ j # 0
            /\ OrZero(row.inventory_quantity) < run[r].shopifyProducts[j].inventory
            /\ InventoryDeltasOf(r, row) # {}
    /\ \E row \in LocalRecords(r) :
         LET j == MatchOf(row, run[r].shopifyProducts)
         IN /\ j # 0
            /\ row.inventory_quantity = NoInventory
            /\ run[r].shopifyProducts[j].inventory = 0

AllDeltas(r) ==
  {run[r].titleChanges[k] : k \in 1..Len(run[r].titleChanges)}
    \cup {run[r].inventoryChanges[k] : k \in 1..Len(run[r].inventoryChanges)}

\* C16: every delta detect returns belongs to a local record that has a
\* non-empty externalId equal to the normalized id of a remote record; local
\* records without externalId, remote records without local counterpart, an
\* empty local snapshot and an empty remote snapshot yield no delta.
C16_DeltasOnlyForMatchedRecords ==
  \A r \in Runs : Detected(r) =>
    /\ \A d \in AllDeltas(r) :
         \E row \in LocalRecords(r) :
           /\ row.id = d.dbProductId
           /\ row.shopify_id = d.shopifyId
           /\ ~Falsy(row.shopify_id)
           /\ row.shopify_id \in SnapshotIds(r)
    /\ run[r].dbProducts = <<>> \/ run[r].shopifyProducts = <<>> => AllDeltas(r) = {}

\* a local record without externalId facing a remote record without id and
\* another title, next to a matched record that got a delta
C16_Witness ==
  \E r \in Runs :
    /\ Detected(r)
    /\ AllDeltas(r) # {}
    /\ \E row \in LocalRecords(r) : \E k \in 1..Len(run[r].shopifyProducts) :
         /\ row.shopify_id = NullId /\ SnapshotId(r, k) = NullId
         /\ row.title # run[r].shopifyProducts[k].title

(***************************************************************************)
(* C17                                                                     *)
(***************************************************************************)
\* the remote system has no variant for externalId x (none listed, or no
\* such product)
NoVariants(catalog, x) ==
  LET j == RemoteFind(catalog, x)
  IN j = 0 \/ Len(catalog[j].variants) = 0

CallsOf(e) == {e.calls[k] : k \in 1..Len(e.calls)}

\* C17: an inventory push for a record that has zero variants at the remote
\* system fails, never calls the set-inventory endpoint, and is counted as a
\* push error by the run.
C17_NoVariantsNoSetCall ==
  \A r \in Runs : run[r].pc \notin {"idle", "archived"} =>
    /\ \A k \in 1..Len(InventoryPushes(r)) :
         LET e == InventoryPushes(r)[k]
         IN NoVariants(run[r].preRemote, e.ext) =>
              ~e.ok /\ "inventorySetQuantities" \notin CallsOf(e)
    /\ run[r].inventorySyncErrors
         = Cardinality({k \in 1..Len(InventoryPushes(r)) : ~InventoryPushes(r)[k].ok})
    /\ Completed(r) =>
         run[r].result.pushErrors
           = Cardinality({k \in 1..Len(Events(r)) :
                            IsPush(Events(r)[k]) /\ ~Events(r)[k].ok})

\* a complete run whose inventory push of a product without variants queried
\* the variants, with no call failing
C17_Witness ==
  \E r \in Runs :
    /\ Completed(r)
    /\ faults = MaxFaults
    /\ run[r].result.pushErrors = 1
    /\ \E k \in 1..Len(InventoryPushes(r)) :
         LET e == InventoryPushes(r)[k]
         IN /\ NoVariants(run[r].preRemote, e.ext)
            /\ e.calls = <<"getProduct">>
            /\ ~e.ok

(***************************************************************************)
(* C18                                                                     *)
(***************************************************************************)
\* the step of request r that handles the remote record at position i of
\* phase 5, and that record
SavesRecord(r) == run[r].pc = "save" /\ run'[r].pc = "save" /\ run'[r].i = run[r].i + 1
RecordSaved(r) == run[r].shopifyProducts[run[r].i]

\* that record has a non-empty externalId and the merchant holds no row for it
IsNewRecord(r) ==
  /\ ~Falsy(ExtractShopifyId(RecordSaved(r).id))
  /\ SelectByShopifyId(db, ExtractShopifyId(RecordSaved(r).id), run[r].shop) = {}

\* the step added exactly one row, carrying the record's values
InsertsItsRow(r) ==
  /\ db \subseteq db'
  /\ Cardinality(db' \ db) = 1
  /\ \A row \in db' \ db :
       /\ row.store_domain = run[r].shop
       /\ row.shopify_id = ExtractShopifyId(RecordSaved(r).id)
       /\ CarriesRemote(row, RecordSaved(r))

NoDeltaFor(r, x) == \A d \in AllDeltas(r) : d.shopifyId # x

\* C18, as stated: for a remote record whose externalId has no row of the
\* merchant, the run has no delta, its phase-5 step inserts exactly one row
\* carrying the record's values and the inserted-or-updated count of the
\* report goes up by one.
C18_NewRecordInserted ==
  [][\A r \in Runs :
       SavesRecord(r) /\ IsNewRecord(r) =>
         /\ NoDeltaFor(r, ExtractShopifyId(RecordSaved(r).id))
         /\ InsertsItsRow(r)
         /\ run'[r].updatedCount = run[r].updatedCount + 1]_vars

\* C18, amended: for a remote record with a non-empty externalId that has no
\* row of the merchant, the run has no delta; when the upsert of the record
\* is stored, it inserts exactly one row carrying the record's values and the
\* updated count of the report goes up by one (the inserted count of the
\* report stays 0); when the upsert is not stored, no row is inserted.
C18_NewRecordInsertedWhenStored ==
  [][\A r \in Runs :
       /\ SavesRecord(r) /\ IsNewRecord(r) =>
            /\ NoDeltaFor(r, ExtractShopifyId(RecordSaved(r).id))
            /\ IF run'[r].events[Len(run'[r].events)].ok
               THEN InsertsItsRow(r) /\ run'[r].updatedCount = run[r].updatedCount + 1
               ELSE db' = db
       /\ run[r].pc = "final" /\ run'[r].pc = "done" =>
            /\ run'[r].result.updated = run[r].updatedCount
            /\ run'[r].result.saved = 0]_vars

\* a complete run that inserted the row of a remote record new to the merchant
\* and reports it as updated
C18_Witness ==
  \E r \in Runs :
    /\ Completed(r)
    /\ run[r].result.updated >= 1 /\ run[r].result.saved = 0
    /\ \E k \in WrittenAt(r) : \E row \in run[r].post :
         /\ row.shopify_id = SnapshotId(r, k)
         /\ CarriesRemote(row, run[r].shopifyProducts[k])
         /\ run[r].shopifyProducts[k].inventory > 0
         /\ \A old \in run[r].pre : old.id # row.id /\ old.shopify_id # row.shopify_id

(***************************************************************************)
(* C19                                                                     *)
(***************************************************************************)
\* C19: at the end of a completed run every delta is counted exactly once:
\* titles pushed + title push failures = number of title deltas, inventories
\* pushed + inventory push failures = number of inventory deltas, each count
\* being the number of pushes that ended that way, and the push error count
\* of the report is the sum of the two failure counts.
C19_PushCountersAccount ==
  \A r \in Runs : Completed(r) =>
    LET okTitles == {k \in 1..Len(TitlePushes(r)) : TitlePushes(r)[k].ok}
        okInventories == {k \in 1..Len(InventoryPushes(r)) : InventoryPushes(r)[k].ok}
    IN /\ run[r].result.titleSynced = Cardinality(okTitles)
       /\ run[r].result.inventorySynced = Cardinality(okInventories)
       /\ run[r].result.titleSynced + run[r].titleSyncErrors = Len(run[r].titleChanges)
       /\ run[r].result.inventorySynced + run[r].inventorySyncErrors
            = Len(run[r].inventoryChanges)
       /\ run[r].result.pushErrors = run[r].titleSyncErrors + run[r].inventorySyncErrors

\* a complete run with a pushed title, a failed title push and a failed
\* inventory push
C19_Witness ==
  \E r \in Runs :
    /\ Completed(r)
    /\ run[r].result.titleSynced >= 1
    /\ run[r].titleSyncErrors >= 1
    /\ run[r].inventorySyncErrors >= 1

(***************************************************************************)
(* C20                                                                     *)
(***************************************************************************)
\* C20: a remote record whose upsert fails in phase 5 (storage error, or no
\* externalId) does not stop the run and is counted as failed: at the end of
\* a complete run every remote record was handed to the upsert, the failed
\* count of the report is the number of records whose upsert was not
\* stored, and the inserted and updated counts together are the number of
\* records whose upsert was stored.
C20_FailedUpsertCountedAsFailed ==
  \A r \in Runs : Completed(r) =>
    /\ Len(Upserts(r)) = Len(run[r].shopifyProducts)
    /\ run[r].result.errors
         = Cardinality({k \in 1..Len(Upserts(r)) : ~Upserts(r)[k].ok})
    /\ run[r].result.saved + run[r].result.updated = Cardinality(WrittenAt(r))

(***************************************************************************)
(* C21                                                                     *)
(***************************************************************************)
Phases == {"idle", "fetch", "title", "inventory", "save", "final", "done", "archived"}

\* C21: no failure of a record and no failure of the whole run makes the
\* sync action throw: a request in progress is always at a step of action()
\* from which it can go on, and a finished request has returned one result
\* with a success flag and a message.
C21_AlwaysReturnsResult ==
  \A r \in Runs :
    /\ run[r].pc \in Phases
    /\ Active(r) => ENABLED RunStep
    /\ Done(r) =>
         /\ run[r].result.success \in BOOLEAN
         /\ run[r].result.message \in {"Sync completed!", "Sync failed"}
         /\ run[r].result.success <=> run[r].fetched

\* a request that could not read the store, lost a push or an upsert as well
\* and still returned its report
C21_Witness ==
  \E r \in Runs :
    /\ Completed(r)
    /\ run[r].storeDown
    /\ run[r].result.pushErrors + run[r].result.errors >= 1
    /\ faults = 0

(***************************************************************************)
(* C22, C23                                                                *)
(***************************************************************************)
InProgress == {step \in Steps \ {"returned"} : pool.at[step] > 0}

\* C22: every unit of work that takes a pooled connection releases it on
\* every way out, so that no connection is checked out when no unit of work
\* is in progress.
C22_NoConnectionHeldAtRest == InProgress = {} => pool.held = 0

\* C23: no call of the remote system is in flight while the unit of work
\* that made it holds a pooled connection.
C23_NoRemoteCallWhileHolding ==
  \A step \in RemoteSteps : pool.at[step] > 0 => Holds(step) = 0

(***************************************************************************)
(* C28                                                                     *)
(***************************************************************************)
\* C28: however many calls of saveProductsToDB overlap, the pool is never
\* exhausted by calls that each keep their connection while they wait, in
\* ensureDatabaseSchema, for one more.
C28_PoolNotExhaustedByWaiters ==
  ~(pool.held = connectionLimit /\ pool.at["save.schema.getDB"] = connectionLimit)

(***************************************************************************)
(* C24                                                                     *)
(***************************************************************************)
Saving(r) == run[r].pc = "save" /\ run[r].i <= Len(Work(r))

\* the row carries none of the records the snapshot of r has for its externalId
DiffersFrom(row, r) ==
  /\ row.shopify_id \in SnapshotIds(r)
  /\ \A k \in 1..Len(run[r].shopifyProducts) :
       SnapshotId(r, k) = row.shopify_id => ~CarriesRemote(row, run[r].shopifyProducts[k])

\* C24: overlapping runs of one merchant take no mutual exclusion: while two
\* runs are both in phase 5 with records left, the next upsert step of each
\* is enabled, so their upserts interleave record by record (and the store
\* can end equal to neither run's snapshot: C24_Witness).
C24_NoMutualExclusion ==
  \A r \in Runs, q \in Runs :
    (r # q /\ run[r].shop = run[q].shop /\ Saving(r) /\ Saving(q)) =>
      ENABLED (SelectExisting(r) \/ WriteProduct(r))

\* both runs have finished, and the store holds a row that differs from the
\* first run's snapshot and a row that differs from the second run's
C24_Witness ==
  \E r \in Runs, q \in Runs :
    /\ r # q /\ Completed(r) /\ Completed(q) /\ run[r].shop = run[q].shop
    /\ \E row \in RowsOf(db, run[r].shop) : DiffersFrom(row, r) /\ ~DiffersFrom(row, q)
    /\ \E row \in RowsOf(db, run[r].shop) : DiffersFrom(row, q) /\ ~DiffersFrom(row, r)

(***************************************************************************)
(* C25                                                                     *)
(***************************************************************************)
\* the snapshot without the records whose externalId an earlier record has
RECURSIVE FirstOccurrencesFrom(_, _)
FirstOccurrencesFrom(products, k) ==
  IF k > Len(products) THEN <<>>
  ELSE LET later == \E j \in 1..(k - 1) :
                      ExtractShopifyId(products[j].id) = ExtractShopifyId(products[k].id)
       IN IF later THEN FirstOccurrencesFrom(products, k + 1)
          ELSE <<products[k]>> \o FirstOccurrencesFrom(products, k + 1)

\* the positions of the snapshot that hold the externalId
PositionsOf(r, x) == {k \in 1..Len(run[r].shopifyProducts) : SnapshotId(r, k) = x}

\* C25: when several remote records of the snapshot have the same
\* externalId, detect compares the local record with the first of them in
\* snapshot order: every delta carries the remote value of the first record
\* of its externalId, and the deltas are those of the snapshot with the later
\* records of an externalId removed.
C25_FirstDuplicateDecides ==
  \A r \in Runs : Detected(r) =>
    /\ \A k \in 1..Len(run[r].titleChanges) :
         LET d == run[r].titleChanges[k]
         IN d.shopifyTitle = run[r].shopifyProducts[Min(PositionsOf(r, d.shopifyId))].title
    /\ \A k \in 1..Len(run[r].inventoryChanges) :
         LET d == run[r].inventoryChanges[k]
         IN d.shopifyInventory =
              OrZero(run[r].shopifyProducts[Min(PositionsOf(r, d.shopifyId))].inventory)
    /\ [titleChanges |-> run[r].titleChanges, inventoryChanges |-> run[r].inventoryChanges]
         = detectChanges(run[r].dbProducts, FirstOccurrencesFrom(run[r].shopifyProducts, 1))

\* a local record whose title differs from the first remote record of its
\* externalId and equals the second: the delta is reported
C25_Witness ==
  \E r \in Runs : Detected(r) /\
    \E row \in LocalRecords(r) :
      /\ Cardinality(PositionsOf(r, row.shopify_id)) = 2
      /\ LET first == run[r].shopifyProducts[Min(PositionsOf(r, row.shopify_id))]
             last == run[r].shopifyProducts[Max(PositionsOf(r, row.shopify_id))]
         IN /\ first.title # row.title /\ last.title = row.title
            /\ OrZero(first.inventory) # OrZero(last.inventory)
      /\ TitleDeltasOf(r, row) # {}

(***************************************************************************)
(* C26                                                                     *)
(***************************************************************************)
\* C26: an inventory push that succeeds is the query of the remote record's
\* variants followed by exactly one set-inventory call; a set-inventory call
\* is issued only after the query has returned a non-empty variant list; and
\* the call sets every variant of the record, one entry per variant, to the
\* inventory the row of the Local Store holds (NULL counting as 0), leaving
\* every other remote record as it was.
C26_InventoryPushProtocol ==
  [][\A r \in Runs :
       (run[r].pc = "inventory" /\ Len(run'[r].events) = Len(run[r].events) + 1) =>
         LET e == run'[r].events[Len(run'[r].events)]
             m == run[r].shop
             change == run[r].inventoryChanges[run[r].i]
             rows == SelectById(db, change.dbProductId, m)
             j == RemoteFind(remote[m], e.ext)
         IN /\ "inventorySetQuantities" \in CallsOf(e) =>
                 /\ e.calls = <<"getProduct", "inventorySetQuantities">>
                 /\ j # 0
                 /\ Len(remote[m][j].variants) > 0
            /\ e.ok =>
                 /\ e.calls = <<"getProduct", "inventorySetQuantities">>
                 /\ rows # {}
                 /\ \A row \in rows :
                      /\ e.sentQty = OrZero(row.inventory_quantity)
                      /\ remote'[m] = [remote[m] EXCEPT ![j].variants =
                           [k \in 1..Len(@) |-> OrZero(row.inventory_quantity)]]
            /\ ~e.ok => remote' = remote
     ]_vars

\* a successful push of a row without inventory to a remote record with two
\* variants: both variants hold 0 afterwards
C26_Witness ==
  \E r \in Runs : \E e \in EventSet(r) :
    /\ IsInventoryPush(e) /\ e.ok /\ e.sentQty = 0
    /\ LET j == RemoteFind(remote[run[r].shop], e.ext)
       IN j # 0 /\ remote[run[r].shop][j].variants = <<0, 0>>

(***************************************************************************)
(* C27                                                                     *)
(***************************************************************************)
\* the earlier runs of the merchant that went through all phases with every
\* push successful
CleanEarlierRuns(r) == {q \in EarlierRuns(r) : run[q].fetched /\ run[q].failed = {}}

\* C27: a run that follows a complete run of the same merchant in which
\* every push succeeded, with no edit from outside in between, detects no
\* delta and issues no remote write.
C27_FixedPoint ==
  \A r \in Runs :
    (run[r].fetched /\ CleanEarlierRuns(r) # {}) =>
      /\ run[r].titleChanges = <<>>
      /\ run[r].inventoryChanges = <<>>
      /\ \A e \in EventSet(r) : ~IsPush(e)

(***************************************************************************)
(* C29                                                                     *)
(***************************************************************************)
\* C29: a push sends the title or quantity the row holds at the moment of
\* the push, read by (internal id, merchantKey), whatever the delta recorded
\* at detect time; when the row no longer exists the push fails and makes no
\* remote call.
C29_PushReadsRowAtPushTime ==
  [][\A r \in Runs :
       (run[r].pc \in {"title", "inventory"}
          /\ Len(run'[r].events) = Len(run[r].events) + 1) =>
         LET e == run'[r].events[Len(run'[r].events)]
             m == run[r].shop
             change == IF run[r].pc = "title" THEN run[r].titleChanges[run[r].i]
                       ELSE run[r].inventoryChanges[run[r].i]
             rows == SelectById(db, change.dbProductId, m)
             j == RemoteFind(remote[m], change.shopifyId)
         IN IF rows = {}
            THEN ~e.ok /\ e.calls = <<>> /\ remote' = remote
            ELSE \A row \in rows :
                   /\ e.calls # <<>>
                   /\ run[r].pc = "title" =>
                        /\ e.sentTitle = row.title
                        /\ e.ok => remote'[m][j].title = row.title
                   /\ run[r].pc = "inventory" =>
                        /\ e.sentQty = OrZero(row.inventory_quantity)
                        /\ e.ok => \A k \in 1..Len(remote'[m][j].variants) :
                                     remote'[m][j].variants[k] = OrZero(row.inventory_quantity)
     ]_vars

\* a request that sent a title other than the one its delta recorded, and
\* whose push of another delta found the row gone
C29_Witness ==
  \E r \in Runs :
    /\ \E e \in EventSet(r) : IsTitlePush(e) /\ e.ok /\ e.sentTitle # e.title
    /\ \E e \in EventSet(r) : IsPush(e) /\ ~e.ok /\ e.calls = <<>>

(***************************************************************************)
(* C30                                                                     *)
(***************************************************************************)
\* every upsert the run made for the externalId was stored
AllStored(r, x) ==
  \A k \in 1..Len(Upserts(r)) : Upserts(r)[k].ext = x => Upserts(r)[k].ok

\* C30: after phase 5 the row of an externalId holds the values of the remote
\* record detect compares it against (the first record of that externalId in
\* the snapshot), also when the snapshot has several records of that
\* externalId, so that a run over the same snapshot finds no delta for it.
C30_StoredRecordIsComparedRecord ==
  \A r \in Runs : Completed(r) =>
    \A x \in SnapshotIds(r) :
      (~Falsy(x) /\ AllStored(r, x)) =>
        \A row \in run[r].post :
          row.shopify_id = x =>
            CarriesRemote(row, run[r].shopifyProducts[FindShopifyProduct(run[r].shopifyProducts, x)])

====
